---- MODULE Spec2Model ----
(***************************************************************************)
(* A model of the S3 access-log roll-up (src/python/main.py): the producer *)
(* (make_tasks, _make_tasks, _group_objects, queue_tasks), the queue, and  *)
(* the workers (get_tasks, handle_sqs_event, do_task,                      *)
(* _delete_objects_in_task).                                               *)
(*                                                                         *)
(* Representation of the program's strings.                                *)
(*  - A basename is a record [pre, date, id, ext]: pre is what precedes    *)
(*    the time stamp ("" for a log object, "rollup-" for an archive), date *)
(*    is the first 10 characters 'YYYY-MM-DD' read as a day number         *)
(*    (InvalidDate when the digits are no calendar date), id stands for    *)
(*    the rest of the name and ext is the filename extension.  Names       *)
(*    of equal width compare as strings the way (date, id) compare.        *)
(*  - A directory is the sequence of its path segments; the key            *)
(*    f'{common_prefix}{basename}' is the pair <<common_prefix, basename>>.*)
(*    Basenames hold no '/', so the pair determines the string.            *)
(*  - The content of a source object is identified with the key it was     *)
(*    stored under: log objects are written once.                          *)
(***************************************************************************)
EXTENDS Integers, Sequences, FiniteSets, TLC

VARIABLES s3, sqs, producer, worker, sched, call

vars == <<s3, sqs, producer, worker, sched, call>>

\* The value of a variable that a specification does not use.
Unused == "unused"

Min(a, b) == IF a <= b THEN a ELSE b

Range(f) == {f[i] : i \in DOMAIN f}

RECURSIVE Flatten(_)
Flatten(ss) == IF ss = <<>> THEN <<>> ELSE Head(ss) \o Flatten(Tail(ss))

(***************************************************************************)
(* Bounds of the model.                                                    *)
(***************************************************************************)
\* Worker processes (CLI workers or Lambda invocations) running at once.
NumWorkers == 2
\* Distinct values secrets.token_hex(4) is drawn from.
MaxTokens == 2
\* Longest basenames list, and largest chunk size, tried on RollupTask.split.
MaxSplitLen == 4

(***************************************************************************)
(* Names and keys.                                                         *)
(***************************************************************************)
\* The value of the date of a name whose first 10 characters strptime rejects.
InvalidDate == -1

LogName(d, i) == [pre |-> "", date |-> d, id |-> i, ext |-> ""]

\* f'{TARBALL_PREFIX}-{self.date_str}-{random_str}.tgz'
TARBALL_PREFIX == "rollup"

TarballName(d, r) == [pre |-> TARBALL_PREFIX, date |-> d, id |-> r, ext |-> ".tgz"]

Key(common_prefix, bn) == <<common_prefix, bn>>

\* PurePosixPath(key).name
PosixName(key) == key[2]

\* The order of sorted() on the local paths of one temporary directory.
NameLess(a, b) == \/ a.date < b.date
                  \/ a.date = b.date /\ a.id < b.id

(***************************************************************************)
(* RollupTask.                                                             *)
(***************************************************************************)
RollupTask(role, bucket, cp, bns) ==
    [s3_role |-> role, bucket_name |-> bucket, common_prefix |-> cp, basenames |-> bns]

TaskLen(t) == Len(t.basenames)

object_keys(t) == [i \in 1..Len(t.basenames) |-> Key(t.common_prefix, t.basenames[i])]

\* Raises ValueError on an empty basenames list.
ValueError == "ValueError"

date_str(t) == IF t.basenames = <<>> THEN ValueError ELSE t.basenames[1].date

\* The outcome of an access or a call: the value returned, or the exception raised.
Returned(v) == [raised |-> "", value |-> v]
Raised(e) == [raised |-> e]

\* __repr__ reads date_str: formatting an empty task raises ValueError.
repr(t) == IF t.basenames = <<>> THEN Raised(date_str(t))
           ELSE Returned(<<TaskLen(t), date_str(t), t.bucket_name, t.common_prefix>>)

\* The directory part of str(PurePosixPath(key)): a key is its segments, each
\* followed by '/', and its name. A leading '/' is the root (two leading slashes
\* are kept, one stands for any other number); further on, empty segments ('//')
\* and '.' segments are dropped.
RECURSIVE LeadingSlashes(_)
LeadingSlashes(dir) ==
    IF dir = <<>> \/ Head(dir) # "" THEN 0 ELSE 1 + LeadingSlashes(Tail(dir))

PosixDir(dir) ==
    LET n == LeadingSlashes(dir)
        root == IF n = 0 THEN <<>> ELSE IF n = 2 THEN <<"", "">> ELSE <<"">>
    IN root \o SelectSeq(SubSeq(dir, n + 1, Len(dir)), LAMBDA seg : seg \notin {"", "."})

\* p = PurePosixPath(self.object_keys[0]); str(p.with_name(...))
tarball_key(t, random_str) ==
    IF t.basenames = <<>> THEN ValueError
    ELSE Key(PosixDir(object_keys(t)[1][1]), TarballName(date_str(t), random_str))

\* A slice that takes its end index with it.
SliceInclusive(s, i, j) == SubSeq(s, i + 1, Min(j + 1, Len(s)))

\* basenames[i:j] of Python, i and j counted from 0, j clamped to the length.
Slice(s, i, j) == SubSeq(s, i + 1, Min(j, Len(s)))

\* for i in range(start, len(self), chunk_size): yield RollupTask(..., basenames[i:i + chunk_size])
RECURSIVE SplitFrom(_, _, _)
SplitFrom(t, i, chunk_size) ==
    IF i >= TaskLen(t) THEN <<>>
    ELSE <<[t EXCEPT !.basenames = Slice(t.basenames, i, i + chunk_size)]>>
         \o SplitFrom(t, i + chunk_size, chunk_size)

split(t, chunk_size) == SplitFrom(t, 0, chunk_size)

(***************************************************************************)
(* The wire format (queue_tasks, get_tasks, handle_sqs_event).             *)
(* json.dumps(dataclasses.asdict(task)) writes a JSON object whose members *)
(* follow the order of the dataclass fields; json.loads builds a dict, and *)
(* the RollupTask constructor binds each field by its name.                        *)
(***************************************************************************)
asdict(t) == << <<"s3_role", t.s3_role>>,
                <<"bucket_name", t.bucket_name>>,
                <<"common_prefix", t.common_prefix>>,
                <<"basenames", t.basenames>> >>

\* The message body: the members of the JSON object, in the order written.
dumps(members) == members

\* json.loads: the value a key is bound to (the last member of that name).
loads(body, k) ==
    LET at == {i \in 1..Len(body) : body[i][1] = k}
        last == CHOOSE i \in at : \A j \in at : j <= i
    IN body[last][2]

\* A deserializer that binds the fields by position, in another order than written.
FromMessagePositional(body) ==
    RollupTask(body[2][2], body[1][2], body[3][2], body[4][2])

\* _task = json.loads(message.body); task = RollupTask built from the keywords of _task
FromMessage(body) ==
    RollupTask(loads(body, "s3_role"), loads(body, "bucket_name"),
               loads(body, "common_prefix"), loads(body, "basenames"))

\* Split a task into multiple if it contains more than 6000 filenames.
SQS_MAX_FILENAMES == 6000

\* A queue_tasks that sends every task as one message.
queue_tasks_unsplit(tasks) ==
    [sent |-> [k \in 1..Len(tasks) |-> dumps(asdict(tasks[k]))], error |-> ""]

\* queue_tasks: the bodies sent, in send order, and the exception that ends the
\* call, if any.  print(f'Queuing task: {task}...') formats the task with its
\* __repr__ after json.dumps and before send_message.
RECURSIVE queue_tasks_run(_)
queue_tasks_run(tasks) ==
    IF tasks = <<>> THEN [sent |-> <<>>, error |-> ""]
    ELSE LET task == Head(tasks)
             first == IF TaskLen(task) > SQS_MAX_FILENAMES
                      THEN queue_tasks_run(split(task, SQS_MAX_FILENAMES))
                      ELSE IF repr(task).raised # ""
                      THEN [sent |-> <<>>, error |-> repr(task).raised]
                      ELSE [sent |-> <<dumps(asdict(task))>>, error |-> ""]
         IN IF first.error # "" THEN first
            ELSE LET rest == queue_tasks_run(Tail(tasks))
                 IN [sent |-> first.sent \o rest.sent, error |-> rest.error]

\* The bodies queue_tasks sends for a sequence of tasks, in send order.
queue_tasks_bodies(tasks) == queue_tasks_run(tasks).sent

\* Each API call can contain up to 1000 keys.
DELETE_MAX_KEYS == 1000

\* A deletion that hands all keys of the task to one delete_objects call.
delete_calls_unsplit(task) == <<object_keys(task)>>

\* The key lists of the delete_objects calls of _delete_objects_in_task, in call order.
RECURSIVE delete_calls(_)
delete_calls(task) ==
    IF TaskLen(task) > DELETE_MAX_KEYS
    THEN LET parts == split(task, DELETE_MAX_KEYS)
         IN Flatten([k \in 1..Len(parts) |-> delete_calls(parts[k])])
    ELSE <<object_keys(task)>>

\* sorted(local_paths): insertion of each path into the sorted prefix.
RECURSIVE Insert(_, _)
Insert(n, sorted) ==
    IF sorted = <<>> THEN <<n>>
    ELSE IF NameLess(n, Head(sorted)) THEN <<n>> \o sorted
    ELSE <<Head(sorted)>> \o Insert(n, Tail(sorted))

RECURSIVE Sorted(_)
Sorted(names) == IF names = <<>> THEN <<>> ELSE Insert(Head(names), Sorted(Tail(names)))

(***************************************************************************)
(* The running system: one bucket, one queue, a producer and workers.      *)
(***************************************************************************)
Workers == 1..NumWorkers

\* The values of secrets.token_hex(4).
TokenHex == 1..MaxTokens

Role1 == "arn:role/one"
Role2 == "arn:role/two"
Bucket1 == "bucket1"
DirA == <<"example.com">>
DirB == <<"example.org">>

\* Two bins of one date under one prefix, and a task of another prefix.
TaskA1 == RollupTask(Role1, Bucket1, DirA, <<LogName(1, 1), LogName(1, 2)>>)
TaskA2 == RollupTask(Role2, Bucket1, DirA, <<LogName(1, 3)>>)
TaskB == RollupTask(Role1, Bucket1, DirB, <<LogName(2, 1)>>)

\* What the producer run hands to queue_tasks.
TaskLists == {<<TaskA1, TaskA2>>}

\* The log objects in the bucket when the system starts.
Sources == UNION {Range(object_keys(t)) : t \in {TaskA1, TaskA2, TaskB}}

IdleWorker ==
    [pc |-> "idle", path |-> "", delete |-> FALSE, batch |-> <<>>, i |-> 0,
     task |-> <<>>, redelivered |-> FALSE, fetched |-> {}, local |-> <<>>,
     uploaded |-> <<>>, calls |-> <<>>, removed |-> {}, acked |-> {}, error |-> ""]

SysInit ==
    /\ s3 = [objects |-> Sources, tarballs |-> {}]
    /\ sqs = <<>>
    /\ \E tasks \in TaskLists : producer = [tasks |-> tasks, i |-> 1]
    /\ worker = [w \in Workers |-> IdleWorker]
    /\ sched = Unused
    /\ call = Unused

\* Largest count given to get_tasks, and largest batch of records of one event.
MaxBatch == 2

Messages == 1..Len(sqs)

Visible == {m \in Messages : sqs[m].state = "visible"}

\* What one receive can return: up to MaxBatch distinct visible messages, in any order.
Batches ==
    {b \in UNION {[1..n -> Visible] : n \in 0..MaxBatch} :
        \A x, y \in 1..Len(b) : x # y => b[x] # b[y]}

\* A receive that acknowledges the messages as it hands them out.
ReceiveAndDelete(batch) ==
    [m \in Messages |-> IF m \in Range(batch) THEN [sqs[m] EXCEPT !.state = "deleted"]
                        ELSE sqs[m]]

\* queue.receive_messages: the messages returned are in flight.
Receive(batch) ==
    [m \in Messages |-> IF m \in Range(batch) THEN [sqs[m] EXCEPT !.state = "inflight"]
                        ELSE sqs[m]]

\* The sources of the task are gone and one archive in the bucket holds them all.
AlreadyRolledUp(t) ==
    /\ Range(object_keys(t)) \cap s3.objects = {}
    /\ \E a \in s3.tarballs :
          \A k \in Range(object_keys(t)) : <<PosixName(k), k>> \in Range(a.members)

\* The consumer is handed the task of message batch[i] and enters do_task.
LoadTask(wr, i) ==
    LET t == FromMessage(sqs[wr.batch[i]].body)
    IN [wr EXCEPT !.i = i, !.task = t, !.redelivered = AlreadyRolledUp(t),
                  !.fetched = {}, !.local = <<>>, !.uploaded = <<>>,
                  !.calls = <<>>, !.removed = {},
                  !.pc = IF t.basenames = <<>> THEN "upload" ELSE "download"]

\* The first task is deserialized and yielded, or the batch is empty.
FirstTask(wr) == IF wr.batch = <<>> THEN [wr EXCEPT !.pc = "done"] ELSE LoadTask(wr, 1)

\* for task in tasks: the generator is resumed after do_task returned.
NextTask(wr) ==
    IF wr.i < Len(wr.batch) THEN LoadTask(wr, wr.i + 1) ELSE [wr EXCEPT !.pc = "done"]

\* An exception leaves do_task, the temporary directory is removed, and the run ends.
Raise(wr, e) == [wr EXCEPT !.pc = "failed", !.error = e, !.fetched = {}, !.local = <<>>]

\* queue_tasks: one iteration of "for task in tasks".
QueueTasks ==
    /\ producer.i <= Len(producer.tasks)
    /\ LET bodies == queue_tasks_bodies(<<producer.tasks[producer.i]>>)
       IN sqs' = sqs \o [k \in 1..Len(bodies) |-> [body |-> bodies[k], state |-> "visible"]]
    /\ producer' = [producer EXCEPT !.i = @ + 1]
    /\ UNCHANGED <<s3, worker, sched, call>>

\* cli(): tasks = roller.get_tasks(args.count); the first next() of the generator.
GetTasks(w) ==
    /\ worker[w].pc = "idle"
    /\ \E batch \in Batches, delete \in BOOLEAN :
          /\ sqs' = Receive(batch)
          /\ worker' = [worker EXCEPT ![w] =
                FirstTask([IdleWorker EXCEPT !.path = "pull", !.delete = delete, !.batch = batch])]
    /\ UNCHANGED <<s3, producer, sched, call>>

\* lambda_handler with event['Records']: handle_sqs_event, self.do_task(task, delete=True).
HandleSqsEvent(w) ==
    /\ worker[w].pc = "idle"
    /\ \E batch \in Batches \ {<<>>} :
          /\ sqs' = Receive(batch)
          /\ worker' = [worker EXCEPT ![w] =
                FirstTask([IdleWorker EXCEPT !.path = "push", !.delete = TRUE, !.batch = batch])]
    /\ UNCHANGED <<s3, producer, sched, call>>

\* The visibility timeout of an unacknowledged message runs out.
VisibilityTimeout(m) ==
    /\ sqs[m].state = "inflight"
    /\ sqs' = [sqs EXCEPT ![m].state = "visible"]
    /\ UNCHANGED <<s3, producer, worker, sched, call>>

\* A do_task that deletes the sources as soon as they are downloaded.
DownloadDoneThenDelete(wr, i) ==
    LET key == object_keys(wr.task)[i]
        got == [wr EXCEPT !.fetched = @ \cup {i}, !.local = (PosixName(key) :> key) @@ @]
    IN IF got.fetched # DOMAIN wr.task.basenames THEN got
       ELSE IF wr.delete THEN [got EXCEPT !.calls = delete_calls(wr.task), !.pc = "delete"]
       ELSE [got EXCEPT !.pc = "upload"]

\* One future of _download_file completes: file_size = future.result().
DownloadDone(wr, i) ==
    LET key == object_keys(wr.task)[i]
        got == [wr EXCEPT !.fetched = @ \cup {i}, !.local = (PosixName(key) :> key) @@ @]
    IN [got EXCEPT !.pc = IF got.fetched = DOMAIN wr.task.basenames THEN "upload" ELSE "download"]

\* A handler that logs the failed download and goes on with the files it has.
DownloadErrorSkipped(wr, e) == [wr EXCEPT !.pc = "upload"]

\* except Exception: print(f'Error downloading {key}'); raise
DownloadError(wr, e) == Raise(wr, e)

\* The futures that have not completed yet.
Pending(w) ==
    IF worker[w].pc = "download"
    THEN DOMAIN worker[w].task.basenames \ worker[w].fetched ELSE {}

Download(w, i) ==
    /\ i \in Pending(w)
    /\ object_keys(worker[w].task)[i] \in s3.objects
    /\ worker' = [worker EXCEPT ![w] = DownloadDone(@, i)]
    /\ UNCHANGED <<s3, sqs, producer, sched, call>>

\* A download fails: the key is absent (404), or the transfer breaks.
DownloadFails(w, i) ==
    /\ i \in Pending(w)
    /\ LET e == IF object_keys(worker[w].task)[i] \in s3.objects
                THEN "DownloadError" ELSE "NoSuchKey"
       IN worker' = [worker EXCEPT ![w] = DownloadError(@, e)]
    /\ UNCHANGED <<s3, sqs, producer, sched, call>>

\* local_paths, in the order of task.object_keys.
LocalPaths(t) == [i \in 1..TaskLen(t) |-> PosixName(object_keys(t)[i])]

\* An archive that takes the files in the order their downloads completed.
TarballMembersAsCompleted(wr) ==
    [j \in 1..Len(wr.order) |->
        <<LocalPaths(wr.task)[wr.order[j]], wr.local[LocalPaths(wr.task)[wr.order[j]]]>>]

\* The members tarball.add writes: (arcname, content) for local_path in sorted(local_paths).
TarballMembers(wr) ==
    LET paths == Sorted(LocalPaths(wr.task))
    IN [j \in 1..Len(paths) |-> <<paths[j], wr.local[paths[j]]>>]

\* s3.put of an object: a key holds one object.
PutTarball(tarballs, key, members) ==
    {a \in tarballs : a.key # key} \cup {[key |-> key, members |-> members]}

\* After a successful upload: if delete: self._delete_objects_in_task(...); return tarball_obj.key
\* The temporary directory is removed when its with block is left.
AfterUpload(wr, key) ==
    LET left == [wr EXCEPT !.uploaded = <<key>>, !.fetched = {}, !.local = <<>>]
    IN IF wr.delete
       THEN [left EXCEPT !.calls = delete_calls(wr.task), !.pc = "delete"]
       ELSE [left EXCEPT !.pc = "return"]

\* The tarball is built and tarball_obj.upload_file succeeds under a fresh tarball_key.
Upload(w) ==
    /\ worker[w].pc = "upload"
    /\ worker[w].task.basenames # <<>>
    /\ Range(LocalPaths(worker[w].task)) \subseteq DOMAIN worker[w].local
    /\ \E random_str \in TokenHex :
          LET key == tarball_key(worker[w].task, random_str)
          IN /\ key \notin {a.key : a \in s3.tarballs}
             /\ s3' = [s3 EXCEPT !.tarballs = PutTarball(@, key, TarballMembers(worker[w]))]
             /\ worker' = [worker EXCEPT ![w] = AfterUpload(@, key)]
    /\ UNCHANGED <<sqs, producer, sched, call>>

\* A do_task that goes on to the deletion although the upload failed.
UploadFailsIgnored(w) ==
    /\ worker[w].pc = "upload"
    /\ worker' = [worker EXCEPT ![w] = AfterUpload(@, tarball_key(worker[w].task, 1))]
    /\ UNCHANGED <<s3, sqs, producer, sched, call>>

\* date_str raises on an empty task, tarball.add on a missing file, or the upload fails.
UploadFails(w) ==
    /\ worker[w].pc = "upload"
    /\ LET e == IF worker[w].task.basenames = <<>> THEN ValueError
                ELSE IF ~(Range(LocalPaths(worker[w].task)) \subseteq DOMAIN worker[w].local)
                     THEN "FileNotFoundError" ELSE "UploadError"
       IN worker' = [worker EXCEPT ![w] = Raise(@, e)]
    /\ UNCHANGED <<s3, sqs, producer, sched, call>>

\* s3_client.delete_objects on the next batch of keys returns; the store has deleted
\* the keys of D, and reports the others in the Errors of its response, which is not read.
\* The keys of the next delete_objects call.
NextDelete(w) ==
    IF worker[w].pc = "delete" /\ worker[w].calls # <<>>
    THEN Range(Head(worker[w].calls)) ELSE {}

DeleteObjects(w, D) ==
    /\ worker[w].pc = "delete"
    /\ worker[w].calls # <<>>
    /\ D \subseteq NextDelete(w)
    /\ s3' = [s3 EXCEPT !.objects = @ \ D]
    /\ worker' = [worker EXCEPT ![w].removed = @ \cup (D \cap s3.objects),
                                ![w].calls = Tail(@),
                                ![w].pc = IF Tail(worker[w].calls) = <<>> THEN "return" ELSE "delete"]
    /\ UNCHANGED <<sqs, producer, sched, call>>

\* s3_client.delete_objects raises.
DeleteFails(w) ==
    /\ worker[w].pc = "delete"
    /\ worker' = [worker EXCEPT ![w] = Raise(@, "DeleteError")]
    /\ UNCHANGED <<s3, sqs, producer, sched, call>>

\* message.delete() of the message whose task the consumer has processed.
Acknowledge(wr) == [wr EXCEPT !.acked = @ \cup {wr.batch[wr.i]}]

\* get_tasks resumed after its yield: message.delete(), then the next message.
GetTasksResume(w) ==
    /\ worker[w].pc = "return"
    /\ worker[w].path = "pull"
    /\ sqs' = [sqs EXCEPT ![worker[w].batch[worker[w].i]].state = "deleted"]
    /\ worker' = [worker EXCEPT ![w] = NextTask(Acknowledge(@))]
    /\ UNCHANGED <<s3, producer, sched, call>>

\* handle_sqs_event after do_task: self.queue.Message(record['receiptHandle']).delete()
HandleSqsDelete(w) ==
    /\ worker[w].pc = "return"
    /\ worker[w].path = "push"
    /\ sqs' = [sqs EXCEPT ![worker[w].batch[worker[w].i]].state = "deleted"]
    /\ worker' = [worker EXCEPT ![w] = NextTask(Acknowledge(@))]
    /\ UNCHANGED <<s3, producer, sched, call>>

\* The run is over (it returned or raised); the worker may be started again.
Exit(w) ==
    /\ worker[w].pc \in {"done", "failed"}
    /\ worker' = [worker EXCEPT ![w] = IdleWorker]
    /\ UNCHANGED <<s3, sqs, producer, sched, call>>

SysNext ==
    \/ QueueTasks
    \/ \E w \in Workers : GetTasks(w)
    \/ \E w \in Workers : HandleSqsEvent(w)
    \/ \E m \in Messages : VisibilityTimeout(m)
    \/ \E w \in Workers : \E i \in Pending(w) : Download(w, i)
    \/ \E w \in Workers : \E i \in Pending(w) : DownloadFails(w, i)
    \/ \E w \in Workers : Upload(w)
    \/ \E w \in Workers : UploadFails(w)
    \/ \E w \in Workers : \E D \in SUBSET NextDelete(w) : DeleteObjects(w, D)
    \/ \E w \in Workers : DeleteFails(w)
    \/ \E w \in Workers : GetTasksResume(w)
    \/ \E w \in Workers : HandleSqsDelete(w)
    \/ \E w \in Workers : Exit(w)

Spec == SysInit /\ [][SysNext]_vars

(***************************************************************************)
(* Properties of the running system.                                       *)
(***************************************************************************)
Archived(k) == \E a \in s3.tarballs : <<PosixName(k), k>> \in Range(a.members)

C2_DeleteOnlyAfterUpload ==
    /\ [](\A w \in Workers : worker[w].uploaded = <<>> => worker[w].removed = {})
    /\ [][\A w \in Workers :
            (worker'[w] # worker[w] /\ s3'.objects # s3.objects) =>
               /\ worker[w].delete
               /\ worker[w].uploaded # <<>>
               /\ \E a \in s3.tarballs : a.key = worker[w].uploaded[1]
               /\ s3.objects \ s3'.objects \subseteq Range(object_keys(worker[w].task))]_vars

\* A call has deleted sources of its task after its upload.
C2_Witness == \E w \in Workers : worker[w].removed # {} /\ worker[w].uploaded # <<>>

DownloadErrors == {"NoSuchKey", "DownloadError"}

\* C3: If a download of a task fails, do_task fails as a whole: the run ends with
\* the error, no archive was uploaded and no source deleted by the call, and the
\* message of the task is not acknowledged by the run; and a call is at the upload
\* (or past it) only with every object of the task downloaded.
C3_DownloadFailureFailsTask ==
    \A w \in Workers :
        /\ worker[w].error \in DownloadErrors =>
              /\ worker[w].pc = "failed"
              /\ worker[w].uploaded = <<>>
              /\ worker[w].removed = {}
              /\ worker[w].batch[worker[w].i] \notin worker[w].acked
        /\ worker[w].pc = "upload" => worker[w].fetched = DOMAIN worker[w].task.basenames
        /\ worker[w].pc \in {"delete", "return"} => worker[w].uploaded # <<>>

\* The second task of a batch failed at a download that another run's deletion made fail.
C3_Witness ==
    \E w \in Workers : /\ worker[w].error = "NoSuchKey"
                       /\ worker[w].i = 2
                       /\ ~worker[w].redelivered

\* C4: A message is deleted only by the run that holds it as its current message,
\* after do_task on its task returned without an exception, on the pull path and on
\* the pushed path; and a run that raised has deleted neither the message it was
\* processing nor any later message of its batch.
C4_AckOnlyAfterProcessing ==
    /\ [](\A w \in Workers : worker[w].pc = "failed" =>
             \A j \in worker[w].i..Len(worker[w].batch) :
                 worker[w].batch[j] \notin worker[w].acked)
    /\ [][\A m \in Messages :
            (sqs[m].state # "deleted" /\ sqs'[m].state = "deleted") =>
               \E w \in Workers :
                  /\ worker[w].pc = "return"
                  /\ worker[w].error = ""
                  /\ worker[w].uploaded # <<>>
                  /\ worker[w].batch[worker[w].i] = m
                  /\ worker'[w].acked = worker[w].acked \cup {m}]_vars

\* A run raised on the first task of a batch of two; both messages are left in the queue.
C4_Witness ==
    \E w \in Workers : /\ worker[w].pc = "failed"
                       /\ worker[w].i = 1
                       /\ Len(worker[w].batch) = 2
                       /\ \A m \in Range(worker[w].batch) : sqs[m].state # "deleted"

\* C5: Duplicate delivery is tolerated. A run handed a task that is already rolled
\* up (archive uploaded, sources deleted, message not acknowledged) does not fail
\* on the keys that are gone.
C5_DuplicateTolerated ==
    \A w \in Workers : worker[w].redelivered => worker[w].error # "NoSuchKey"

\* The tasks queue_tasks has been given so far.
Queued == SubSeq(producer.tasks, 1, producer.i - 1)

SplitBasenames == UNION {[1..n -> {LogName(1, 1), LogName(1, 2)}] : n \in 0..MaxSplitLen}

SplitInit ==
    /\ \E bns \in SplitBasenames, role \in {Role1, Role2}, n \in 1..MaxSplitLen :
          call = [fn |-> "split", pc |-> "call", arg |-> RollupTask(role, Bucket1, DirA, bns),
                  self |-> RollupTask(role, Bucket1, DirA, bns), chunk_size |-> n, out |-> <<>>]
    /\ s3 = Unused /\ sqs = Unused /\ producer = Unused /\ worker = Unused /\ sched = Unused

\* list(task.split(chunk_size)); the task itself is not assigned to.
SplitCall ==
    /\ call.pc = "call"
    /\ call' = [call EXCEPT !.out = split(call.self, call.chunk_size), !.pc = "done"]
    /\ UNCHANGED <<s3, sqs, producer, worker, sched>>

SpecSplit == SplitInit /\ [][SplitCall]_vars

\* ceil(a / b) for b > 0.
CeilDiv(a, b) == IF a % b = 0 THEN a \div b ELSE a \div b + 1

\* C9: Split law. For any task and any n > 0, task.split(n) yields
\* ceil(len(task)/n) tasks, each of 1 to n basenames and of the role, bucket and
\* common_prefix of the original; their basenames concatenated in yield order are
\* the original basenames; and the original task is unchanged.
C9_SplitLaw ==
    call.pc = "done" =>
        /\ Len(call.out) = CeilDiv(TaskLen(call.arg), call.chunk_size)
        /\ \A k \in 1..Len(call.out) :
              /\ TaskLen(call.out[k]) \in 1..call.chunk_size
              /\ call.out[k].s3_role = call.arg.s3_role
              /\ call.out[k].bucket_name = call.arg.bucket_name
              /\ call.out[k].common_prefix = call.arg.common_prefix
        /\ Flatten([k \in 1..Len(call.out) |-> call.out[k].basenames]) = call.arg.basenames
        /\ call.self = call.arg

\* A split into several chunks, the last one shorter than the others.
C9_Witness ==
    /\ call.pc = "done"
    /\ Len(call.out) >= 2
    /\ TaskLen(call.out[Len(call.out)]) < call.chunk_size
    /\ call.arg.basenames[1] # call.arg.basenames[2]

(***************************************************************************)
(* _group_objects.  An object summary is a record [key, size].             *)
(***************************************************************************)
ObjectSummary(key, size) == [key |-> key, size |-> size]

\* next(objects) on an exhausted iterator.
StopIteration == "StopIteration"

\* A loop that adds the object when either limit allows it.
RECURSIVE GroupLoopEitherLimit(_, _, _, _, _)
GroupLoopEitherLimit(objects, group, group_size, max_size, max_items) ==
    IF objects = <<>> THEN <<group>>
    ELSE LET current == Head(objects)
         IN IF (group_size + current.size <= max_size) \/ (Len(group) + 1 <= max_items)
            THEN GroupLoopEitherLimit(Tail(objects), Append(group, current),
                                      group_size + current.size, max_size, max_items)
            ELSE <<group>> \o GroupLoopEitherLimit(Tail(objects), <<current>>, current.size,
                                                   max_size, max_items)

\* for current in objects: ...; yield group
RECURSIVE GroupLoop(_, _, _, _, _)
GroupLoop(objects, group, group_size, max_size, max_items) ==
    IF objects = <<>> THEN <<group>>
    ELSE LET current == Head(objects)
         IN IF (group_size + current.size <= max_size) /\ (Len(group) + 1 <= max_items)
            THEN GroupLoop(Tail(objects), Append(group, current),
                           group_size + current.size, max_size, max_items)
            ELSE <<group>> \o GroupLoop(Tail(objects), <<current>>, current.size,
                                        max_size, max_items)

\* A grouping that yields the group it has open once more, emptied, at the end.
group_objects_flushed(objects, max_size, max_items) ==
    IF objects = <<>> THEN StopIteration
    ELSE LET initial == Head(objects)
         IN GroupLoop(Tail(objects), <<initial>>, initial.size, max_size, max_items)
            \o << <<>> >>

\* The groups yielded, in order.
group_objects(objects, max_size, max_items) ==
    IF objects = <<>> THEN StopIteration
    ELSE LET initial == Head(objects)
         IN GroupLoop(Tail(objects), <<initial>>, initial.size, max_size, max_items)

\* Longest sequence of objects, and largest size of one object, given to _group_objects.
MaxGroupLen == 3
MaxObjectSize == 3
\* Largest max_size and max_items given to _group_objects.
MaxGroupSize == 3
MaxGroupItems == 2

\* The i-th object of a listing with the given sizes.
SizedObjects(sizes) ==
    [i \in 1..Len(sizes) |-> ObjectSummary(Key(DirA, LogName(1, i)), sizes[i])]

GroupInit ==
    /\ \E n \in 1..MaxGroupLen :
         \E sizes \in [1..n -> 0..MaxObjectSize], ms \in 0..MaxGroupSize, mi \in 1..MaxGroupItems :
            call = [fn |-> "_group_objects", pc |-> "call", objects |-> SizedObjects(sizes),
                    max_size |-> ms, max_items |-> mi, out |-> <<>>]
    /\ s3 = Unused /\ sqs = Unused /\ producer = Unused /\ worker = Unused /\ sched = Unused

\* list(AccessLogRoller._group_objects(objects, max_size=..., max_items=...))
GroupCall ==
    /\ call.pc = "call"
    /\ call' = [call EXCEPT !.out = group_objects(call.objects, call.max_size, call.max_items),
                            !.pc = "done"]
    /\ UNCHANGED <<s3, sqs, producer, worker, sched>>

SpecGroup == GroupInit /\ [][GroupCall]_vars

RECURSIVE TotalSize(_)
TotalSize(objects) == IF objects = <<>> THEN 0 ELSE Head(objects).size + TotalSize(Tail(objects))

S3Key(dir, stem) == [dir |-> dir, stem |-> stem]

S3URI(bucket, key) == [bucket |-> bucket, key |-> key]

\* starts_with_datetime and has_no_suffix
is_access_log(obj) == PosixName(obj.key).pre = "" /\ PosixName(obj.key).ext = ""

\* The '' that _date_getter returns for a date that is not in the past.
NotPast == 0

\* A getter that takes today for a date of the past.
DateGetterUpToToday(obj, utc_today) ==
    LET date == PosixName(obj.key).date
    IN IF date = InvalidDate THEN InvalidDate
       ELSE IF date > utc_today THEN NotPast ELSE date

\* The date of the key, NotPast, or InvalidDate when strptime raises ValueError.
date_getter(obj, utc_today) ==
    LET date == PosixName(obj.key).date
    IN IF date = InvalidDate THEN InvalidDate
       ELSE IF date >= utc_today THEN NotPast ELSE date

\* max_size = 1024 * 1024 * 1024 * 5, counted in MiB; max_items = 6000
MAX_SIZE_MIB == 5120
MAX_ITEMS == 6000

\* 'a/b/c' -> 'a/b/', 'a/b/' -> 'a/b/'; a key without '/' gets one appended.
CommonPrefix(key) == IF key.dir # <<>> THEN key.dir ELSE <<key.stem>>

\* itertools.groupby: the runs of consecutive objects of one key.
RECURSIVE GroupBy(_, _)
GroupBy(objects, keys) ==
    IF objects = <<>> THEN <<>>
    ELSE LET rest == GroupBy(Tail(objects), Tail(keys))
         IN IF rest # <<>> /\ Len(keys) > 1 /\ keys[2] = keys[1]
            THEN <<(<<Head(objects)>> \o Head(rest))>> \o Tail(rest)
            ELSE <<(<<Head(objects)>>)>> \o rest

\* A loop without "if not date_str: break": it ends only where strptime raises.
StopIndexOfErrors(keys) ==
    LET ends == {j \in 1..Len(keys) : keys[j] = InvalidDate}
    IN IF ends = {} THEN Len(keys) + 1
       ELSE CHOOSE j \in ends : \A x \in ends : j <= x

\* Where the enumeration ends: at the first object whose date is not of the past
\* (if not date_str: break) or is no date (ValueError); past the end otherwise.
StopIndex(keys) ==
    LET ends == {j \in 1..Len(keys) : keys[j] \in {NotPast, InvalidDate}}
    IN IF ends = {} THEN Len(keys) + 1
       ELSE CHOOSE j \in ends : \A x \in ends : j <= x

\* The tasks _make_tasks yields for a listing, the j-th qualifying object being
\* examined on the date clock[j], and the exception that ends it, if any.
make_tasks_of(s3_role, prefix, listing, clock) ==
    LET objects == SelectSeq(listing, is_access_log)
        keys == [j \in 1..Len(objects) |-> date_getter(objects[j], clock[j])]
        stop == StopIndex(keys)
        raised == stop <= Len(objects) /\ keys[stop] = InvalidDate
        runs == GroupBy(SubSeq(objects, 1, stop - 1), SubSeq(keys, 1, stop - 1))
        groups == Flatten([r \in 1..Len(runs) |->
                              group_objects(runs[r], MAX_SIZE_MIB, MAX_ITEMS)])
        \* The exception reaches _group_objects before it yields its open group.
        yielded == IF raised /\ groups # <<>> THEN SubSeq(groups, 1, Len(groups) - 1)
                   ELSE groups
    IN [tasks |-> [g \in 1..Len(yielded) |->
                      RollupTask(s3_role, prefix.bucket, CommonPrefix(prefix.key),
                                 [o \in 1..Len(yielded[g]) |-> PosixName(yielded[g][o].key)])],
        error |-> IF raised THEN ValueError ELSE "",
        \* obj_group of each task yielded: the objects its basenames were taken from.
        groups |-> yielded]

\* Longest listing of a prefix, and the latest date of the clock at the start.
MaxListing == 3
MaxDay == 3

\* Two large objects and small ones of three dates, a name that is no date, and other files.
ListedObjects ==
    { ObjectSummary(Key(DirA, LogName(1, 1)), 3000),
      ObjectSummary(Key(DirA, LogName(1, 2)), 3000),
      ObjectSummary(Key(DirA, LogName(2, 1)), 1),
      ObjectSummary(Key(DirA, LogName(3, 1)), 1),
      ObjectSummary(Key(DirA, LogName(InvalidDate, 1)), 1),
      ObjectSummary(Key(DirA, [pre |-> "robots", date |-> NotPast, id |-> 0, ext |-> ".txt"]), 1) }

\* Listings: distinct objects, in any order.
Listings ==
    {l \in UNION {[1..n -> ListedObjects] : n \in 0..MaxListing} :
        \A x, y \in 1..Len(l) : x # y => l[x] # l[y]}

\* datetime.utcnow().date() at the j-th call: midnight passes before call number tick.
Clock(today, tick) == [j \in 1..MaxListing |-> IF j >= tick THEN today + 1 ELSE today]

MakeInit ==
    /\ \E listing \in Listings, today \in 2..MaxDay, tick \in 1..MaxListing + 1 :
          call = [fn |-> "_make_tasks", pc |-> "call", s3_role |-> Role1,
                  prefix |-> S3URI(Bucket1, S3Key(DirA, "")), listing |-> listing,
                  clock |-> Clock(today, tick), out |-> <<>>]
    /\ s3 = Unused /\ sqs = Unused /\ producer = Unused /\ worker = Unused /\ sched = Unused

\* list(self._make_tasks(s3_role, prefix))
MakeCall ==
    /\ call.pc = "call"
    /\ call' = [call EXCEPT !.out = make_tasks_of(call.s3_role, call.prefix, call.listing,
                                                  call.clock),
                            !.pc = "done"]
    /\ UNCHANGED <<s3, sqs, producer, worker, sched>>

SpecMake == MakeInit /\ [][MakeCall]_vars

\* The basenames of all tasks of a result.
TaskNames(out) == UNION {Range(out.tasks[t].basenames) : t \in 1..Len(out.tasks)}

\* C8: Date filter. For any listing, in any order, no task of the task builder
\* holds an object whose derived date is the UTC date current when the object was
\* examined, or a later date.
C8_DateFilter ==
    call.pc = "done" =>
        LET objects == SelectSeq(call.listing, is_access_log)
        IN \A j \in 1..Len(objects) :
              PosixName(objects[j].key) \in TaskNames(call.out) =>
                 /\ PosixName(objects[j].key).date # InvalidDate
                 /\ PosixName(objects[j].key).date < call.clock[j]

\* A listing with an object of today after an object of the past, which is in a task.
C8_Witness ==
    /\ call.pc = "done"
    /\ call.out.tasks # <<>>
    /\ \E j \in 1..Len(call.listing) :
          /\ is_access_log(call.listing[j])
          /\ PosixName(call.listing[j].key).date >= call.clock[MaxListing]

(***************************************************************************)
(* make_tasks: the round-robin over the task streams of the log prefixes.  *)
(* The stream of the i-th prefix is the tasks <<i, 1>> .. <<i, streams[i]>>*)
(* that its _make_tasks generator yields; a cursor is a generator with the *)
(* number of tasks taken from it.                                          *)
(***************************************************************************)
\* deque(itertools.islice(task_makers, 20))
WINDOW == 20

\* Most log prefixes found, most tasks of one prefix, and the period with which the
\* numbers of tasks of the prefixes repeat.
MaxPrefixes == 22
MaxTasks == 2
PatternLen == 2

\* A generator handed over with its first task already taken.
CursorStarted(i) == [prefix |-> i, taken |-> 1]

\* self._make_tasks(s3_role, prefix) of the i-th prefix: a generator not started yet.
Cursor(i) == [prefix |-> i, taken |-> 0]

\* A deque that is left as it is after a yield.
NoRotate(active) == active

\* active_task_makers.rotate(-1)
Rotate(active) == Tail(active) \o <<Head(active)>>

\* A loop that leaves the exhausted generator in the deque.
popleft_kept(active) == active

\* active_task_makers.popleft()
popleft(active) == Tail(active)

\* A generator that never raises StopIteration to the loop.
StreamNeverEnds(head, streams) == FALSE

\* next(active_task_makers[0]) raises StopIteration: the stream has no further task.
StreamExhausted(head, streams) == head.taken = streams[head.prefix]

SchedInit ==
    /\ \E n \in 0..MaxPrefixes, pattern \in [0..PatternLen - 1 -> 0..MaxTasks],
          region_ok \in BOOLEAN :
          sched = [pc |-> "start", region_ok |-> region_ok,
                   streams |-> [i \in 1..n |-> pattern[i % PatternLen]],
                   task_makers |-> 1, active |-> <<>>, out |-> <<>>, prefixes_count |-> 0]
    /\ s3 = Unused /\ sqs = Unused /\ producer = Unused /\ worker = Unused /\ call = Unused

\* The first next(): the region check, find_log_prefixes and the first window.
SchedStart ==
    /\ sched.pc = "start"
    /\ sched' = IF ~sched.region_ok THEN [sched EXCEPT !.pc = "failed"]
                ELSE LET first == Min(WINDOW, Len(sched.streams))
                     IN [sched EXCEPT !.active = [i \in 1..first |-> Cursor(i)],
                                      !.task_makers = first + 1,
                                      !.pc = "loop"]
    /\ UNCHANGED <<s3, sqs, producer, worker, call>>

\* yield next(active_task_makers[0])
SchedYield ==
    /\ sched.pc = "loop"
    /\ sched.active # <<>>
    /\ LET head == Head(sched.active)
       IN /\ head.taken < sched.streams[head.prefix]
          /\ sched' = [sched EXCEPT !.out = Append(@, <<head.prefix, head.taken + 1>>),
                                    !.active[1].taken = @ + 1,
                                    !.pc = "yielded"]
    /\ UNCHANGED <<s3, sqs, producer, worker, call>>

\* The generator is resumed after its yield: else: active_task_makers.rotate(-1)
SchedResume ==
    /\ sched.pc = "yielded"
    /\ sched' = [sched EXCEPT !.active = Rotate(@), !.pc = "loop"]
    /\ UNCHANGED <<s3, sqs, producer, worker, call>>

\* except StopIteration: popleft(), prefixes_count += 1, append(next(task_makers)) if any
SchedExhausted ==
    /\ sched.pc = "loop"
    /\ sched.active # <<>>
    /\ LET head == Head(sched.active)
           more == sched.task_makers <= Len(sched.streams)
       IN /\ StreamExhausted(head, sched.streams)
          /\ sched' = [sched EXCEPT
                 !.active = IF more THEN Append(popleft(@), Cursor(sched.task_makers))
                            ELSE popleft(@),
                 !.task_makers = IF more THEN @ + 1 ELSE @,
                 !.prefixes_count = @ + 1]
    /\ UNCHANGED <<s3, sqs, producer, worker, call>>

\* while active_task_makers: is left; print(f'Done processing ...')
SchedDone ==
    /\ sched.pc = "loop"
    /\ sched.active = <<>>
    /\ sched' = [sched EXCEPT !.pc = "done"]
    /\ UNCHANGED <<s3, sqs, producer, worker, call>>

SchedNext == SchedStart \/ SchedYield \/ SchedResume \/ SchedExhausted \/ SchedDone

SpecSched == SchedInit /\ [][SchedNext]_vars

\* The prefixes in the active window when make_tasks yields its first task: the
\* exhausted prefixes before the first one with a task have been dropped, each
\* admitting the next pending prefix.
FirstWindow ==
    LET n == Len(sched.streams)
        with_tasks == {i \in 1..n : sched.streams[i] >= 1}
    IN IF with_tasks = {} THEN {}
       ELSE LET first == CHOOSE i \in with_tasks : \A j \in with_tasks : i <= j
            IN first..Min(first + WINDOW - 1, n)

\* The prefixes of that window that have at least one task.
ActiveWithTasks == {i \in FirstWindow : sched.streams[i] >= 1}

\* C6: Scheduler fairness. With k >= 2 prefixes in the active window of the
\* first yield that each have at least one task, the first k tasks make_tasks
\* yields come from k pairwise distinct prefixes (and a run that ends has
\* yielded that many).
C6_Fairness ==
    LET k == Cardinality(ActiveWithTasks)
    IN /\ (sched.pc = "yielded" /\ Len(sched.out) = 1) =>
             {sched.active[c].prefix : c \in 1..Len(sched.active)} = FirstWindow
       /\ (sched.region_ok /\ k >= 2) =>
             /\ \A a, b \in 1..Min(k, Len(sched.out)) :
                   a # b => sched.out[a][1] # sched.out[b][1]
             /\ sched.pc = "done" => Len(sched.out) >= k

\* A full window of prefixes with tasks, more prefixes pending, and more than two rounds yielded.
C6_Witness ==
    /\ Cardinality(ActiveWithTasks) = WINDOW
    /\ Len(sched.streams) > WINDOW
    /\ sched.pc = "done"
    /\ Len(sched.out) > 2 * WINDOW

(***************************************************************************)
(* queue_tasks, called on its own with tasks of any length.                *)
(***************************************************************************)
\* Most tasks given to one call.
MaxQueueTasks == 2

\* Lengths of the tasks given: empty, one name, the limit, and past the limit once and twice.
QueueLens == {0, 1, SQS_MAX_FILENAMES, SQS_MAX_FILENAMES + 1, 2 * SQS_MAX_FILENAMES + 1}

\* The task at position p of the call: its names carry the date p.
QueueTask(role, p, n) == RollupTask(role, Bucket1, DirA, [k \in 1..n |-> LogName(p, k)])

QueueInit ==
    /\ \E n \in 0..MaxQueueTasks :
         \E lens \in [1..n -> QueueLens], roles \in [1..n -> {Role1, Role2}] :
            call = [fn |-> "queue_tasks", pc |-> "loop", i |-> 1, sent |-> <<>>, error |-> "",
                    tasks |-> [p \in 1..n |-> QueueTask(roles[p], p, lens[p])]]
    /\ s3 = Unused /\ sqs = Unused /\ producer = Unused /\ worker = Unused /\ sched = Unused

\* One iteration of "for task in tasks", the recursive call for a long task included.
QueueTask1 ==
    /\ call.pc = "loop"
    /\ call.i <= Len(call.tasks)
    /\ LET r == queue_tasks_run(<<call.tasks[call.i]>>)
       IN call' = IF r.error # ""
                  THEN [call EXCEPT !.sent = @ \o r.sent, !.error = r.error, !.pc = "failed"]
                  ELSE [call EXCEPT !.sent = @ \o r.sent, !.i = @ + 1]
    /\ UNCHANGED <<s3, sqs, producer, worker, sched>>

\* The iterator of tasks is exhausted: queue_tasks returns.
QueueReturn ==
    /\ call.pc = "loop"
    /\ call.i > Len(call.tasks)
    /\ call' = [call EXCEPT !.pc = "done"]
    /\ UNCHANGED <<s3, sqs, producer, worker, sched>>

QueueNext == QueueTask1 \/ QueueReturn

SpecQueue == QueueInit /\ [][QueueNext]_vars

\* The basenames of the messages sent, and of the tasks handled, in order.
SentNames == Flatten([m \in 1..Len(call.sent) |-> FromMessage(call.sent[m]).basenames])
HandledNames == Flatten([p \in 1..call.i - 1 |-> call.tasks[p].basenames])

\* C11: Enqueue splitting. Every message queue_tasks sends carries at least 1
\* and at most 6000 basenames; a task of more than 6000 basenames is sent in
\* several messages and raises no error; and the basenames of the messages,
\* concatenated in send order, are the basenames of the tasks handled.
C11_EnqueueSplitting ==
    /\ \A m \in 1..Len(call.sent) :
          /\ Len(FromMessage(call.sent[m]).basenames) >= 1
          /\ Len(FromMessage(call.sent[m]).basenames) <= SQS_MAX_FILENAMES
    /\ call.pc = "failed" => TaskLen(call.tasks[call.i]) <= SQS_MAX_FILENAMES
    /\ SentNames = HandledNames

\* A task that fills more than two messages has been sent.
C11_Witness ==
    /\ call.pc = "done"
    /\ \E p \in 1..Len(call.tasks) : TaskLen(call.tasks[p]) > 2 * SQS_MAX_FILENAMES
    /\ Len(call.sent) > 2

(***************************************************************************)
(* S3Path: the folder view of a bucket.                                    *)
(* A path node is a bucket, the segments of its key before the last '/',   *)
(* and what follows the last '/': <<>> for the key '' or a key that ends   *)
(* with '/', <<n>> for the name n.                                         *)
(***************************************************************************)
S3Path(bucket, dir, name) == [bucket |-> bucket, dir |-> dir, name |-> name]

is_dir(node) == node.name = <<>>

is_file(node) == ~is_dir(node)

\* self.key.rstrip('/').count('/')
depth(node) ==
    IF is_file(node) THEN Len(node.dir)
    ELSE IF node.dir = <<>> THEN 0 ELSE Len(node.dir) - 1

\* The uri of a directory or of a key prefix, as make_tasks is given it.
PathURI(node) ==
    S3URI(node.bucket, S3Key(node.dir, IF node.name = <<>> THEN "" ELSE node.name[1]))

\* _is_access_log(f.uri) for a file of a listing.
is_access_log_file(f) == is_access_log([key |-> Key(f.dir, f.name[1])])

\* MaxKeys=500 of list_objects_v2
MAX_KEYS == 500

\* The directories of the bucket layouts, and what a directory holds directly:
\* nothing, one log, one file that is no log, one log of each of three days,
\* MAX_KEYS logs, or MAX_KEYS files that are no logs and sort before one log.
TreeDirs == { <<>>, <<"a">>, <<"b">>, <<"a", "a">>, <<"a", "b">>,
              <<"a", "a", "a">>, <<"a", "a", "a", "a">> }
SmallHoldings == {"none", "log", "txt"}
BigHoldings == {"logs", "txtlog"}

\* Most directories of a layout with more than MAX_KEYS - 1 entries.
MaxBig == 1

LayoutsOf(holdings) ==
    {l \in [TreeDirs -> holdings] :
        Cardinality({d \in TreeDirs : l[d] \in BigHoldings}) <= MaxBig}

Layouts == LayoutsOf(SmallHoldings \cup BigHoldings)

OtherName(i) == [pre |-> "!", date |-> 1, id |-> i, ext |-> ".txt"]

\* The names of the objects directly in a directory, in key order.
FilesOf(layout, d) ==
    CASE layout[d] = "none" -> <<>>
      [] layout[d] = "log" -> <<LogName(1, 1)>>
      [] layout[d] = "txt" -> <<OtherName(1)>>
      [] layout[d] = "days" -> <<LogName(1, 1), LogName(2, 1), LogName(3, 1)>>
      [] layout[d] = "logs" -> [i \in 1..MAX_KEYS |-> LogName(1, i)]
      [] layout[d] = "txtlog" -> [i \in 1..MAX_KEYS |-> OtherName(i)] \o <<LogName(1, 1)>>

IsPrefixOf(d, e) == Len(d) <= Len(e) /\ SubSeq(e, 1, Len(d)) = d

\* A directory is there when an object lies in it or below it.
HasObjects(layout, d) == \E e \in TreeDirs : layout[e] # "none" /\ IsPrefixOf(d, e)

\* The subdirectories of a directory, in key order.
SubDirs(layout, d) ==
    SelectSeq(<<d \o <<"a">>, d \o <<"b">> >>,
              LAMBDA c : c \in TreeDirs /\ HasObjects(layout, c))

\* The keys and common prefixes under a directory, in key order: the names of
\* the objects sort before the names of the subdirectories.
Entries(layout, node) ==
    LET names == FilesOf(layout, node.dir)
        subs == SubDirs(layout, node.dir)
    IN [i \in 1..Len(names) |-> [Key |-> S3Path(node.bucket, node.dir, <<names[i]>>)]]
       \o [i \in 1..Len(subs) |-> [Prefix |-> S3Path(node.bucket, subs[i], <<>>)]]

\* s3.list_objects_v2(Bucket, Prefix=self.key, Delimiter='/', MaxKeys=500): one page.
list_objects_v2(layout, node) ==
    LET all == Entries(layout, node)
        page == SubSeq(all, 1, Min(MAX_KEYS, Len(all)))
    IN [Contents |-> SelectSeq(page, LAMBDA x : "Key" \in DOMAIN x),
        CommonPrefixes |-> SelectSeq(page, LAMBDA x : "Prefix" \in DOMAIN x)]

NotADirectoryError == "NotADirectoryError"

folders(layout, node) ==
    IF is_file(node) THEN Raised(NotADirectoryError)
    ELSE LET items == list_objects_v2(layout, node).CommonPrefixes
         IN Returned([i \in 1..Len(items) |-> items[i].Prefix])

files(layout, node) ==
    IF is_file(node) THEN Raised(NotADirectoryError)
    ELSE LET items == list_objects_v2(layout, node).Contents
         IN Returned([i \in 1..Len(items) |-> items[i].Key])

\* A walk that yields a folder before it looks at its depth.
RECURSIVE FindFoldersInclusive(_, _, _)
FindFoldersInclusive(layout, fs, max_depth) ==
    IF fs = <<>> THEN <<>>
    ELSE LET folder == Head(fs)
         IN <<folder>>
            \o (IF depth(folder) >= max_depth THEN <<>>
                ELSE FindFoldersInclusive(layout, folders(layout, folder).value, max_depth))
            \o FindFoldersInclusive(layout, Tail(fs), max_depth)

\* for folder in self.folders: break at max_depth, yield folder, yield from folder.find_folders
RECURSIVE FindFoldersLoop(_, _, _)
FindFoldersLoop(layout, fs, max_depth) ==
    IF fs = <<>> THEN <<>>
    ELSE LET folder == Head(fs)
         IN IF depth(folder) >= max_depth THEN <<>>
            ELSE <<folder>>
                 \o FindFoldersLoop(layout, folders(layout, folder).value, max_depth)
                 \o FindFoldersLoop(layout, Tail(fs), max_depth)

\* The folders find_folders yields, in order, or the exception of self.folders.
find_folders(layout, node, max_depth) ==
    LET fs == folders(layout, node)
    IN IF fs.raised # "" THEN fs
       ELSE Returned(FindFoldersLoop(layout, fs.value, max_depth))

\* any(self._is_access_log(f.uri) for f in folder.files)
AnyAccessLog(layout, folder) ==
    LET fs == files(layout, folder).value
    IN \E i \in 1..Len(fs) : is_access_log_file(fs[i])

\* max_depth: int = 3
DEFAULT_MAX_DEPTH == 3

\* The uris find_log_prefixes yields, in order.
find_log_prefixes(layout, root, max_depth) ==
    IF is_file(root) THEN <<PathURI(root)>>
    ELSE LET found == SelectSeq(find_folders(layout, root, max_depth).value,
                                LAMBDA f : AnyAccessLog(layout, f))
         IN (IF AnyAccessLog(layout, root) THEN <<PathURI(root)>> ELSE <<>>)
            \o [i \in 1..Len(found) |-> PathURI(found[i])]

(***************************************************************************)
(* find_log_prefixes, called on a root of a bucket layout.                 *)
(***************************************************************************)
DirNode(d) == S3Path(Bucket1, d, <<>>)

\* The bucket root, a directory, and a key prefix that is no directory.
Roots == {DirNode(<<>>), DirNode(<<"a">>), S3Path(Bucket1, <<"a">>, <<"2022-">>)}

FindInit ==
    /\ \E layout \in Layouts, root \in Roots :
          call = [fn |-> "find_log_prefixes", pc |-> "call", layout |-> layout,
                  root |-> root, max_depth |-> DEFAULT_MAX_DEPTH, out |-> <<>>]
    /\ s3 = Unused /\ sqs = Unused /\ producer = Unused /\ worker = Unused /\ sched = Unused

\* list(self.find_log_prefixes(s3_role, s3_uri))
FindCall ==
    /\ call.pc = "call"
    /\ call' = [call EXCEPT !.out = find_log_prefixes(call.layout, call.root, call.max_depth),
                            !.pc = "done"]
    /\ UNCHANGED <<s3, sqs, producer, worker, sched>>

SpecFind == FindInit /\ [][FindCall]_vars

\* The directories of a layout at or below a directory.
DirsBelow(layout, d) == {e \in TreeDirs : IsPrefixOf(d, e) /\ (e = d \/ HasObjects(layout, e))}

\* A directory directly holds a qualifying log object.
HoldsLog(layout, d) ==
    LET names == FilesOf(layout, d)
    IN \E i \in 1..Len(names) : is_access_log([key |-> Key(d, names[i])])

\* C12: Discovery. For a layout whose directories all lie within the explored
\* depth, find_log_prefixes on a directory root yields, each once, exactly the
\* directories at or below the root that directly hold a qualifying log object.
C12_Discovery ==
    (/\ call.pc = "done"
     /\ is_dir(call.root)
     /\ \A d \in DirsBelow(call.layout, call.root.dir) :
           d = call.root.dir \/ depth(DirNode(d)) < call.max_depth)
    => /\ \A x, y \in 1..Len(call.out) : x # y => call.out[x] # call.out[y]
       /\ Range(call.out) =
             {PathURI(DirNode(d)) : d \in {e \in DirsBelow(call.layout, call.root.dir) :
                                              HoldsLog(call.layout, e)}}

(***************************************************************************)
(* find_folders, called on a node of a bucket layout.                      *)
(***************************************************************************)
\* Largest max_depth given to find_folders.
MaxFindDepth == 4

FoldersInit ==
    /\ \E layout \in LayoutsOf({"none", "log", "logs"}), node \in Roots,
          max_depth \in 0..MaxFindDepth :
          call = [fn |-> "find_folders", pc |-> "call", layout |-> layout,
                  node |-> node, max_depth |-> max_depth, out |-> Returned(<<>>)]
    /\ s3 = Unused /\ sqs = Unused /\ producer = Unused /\ worker = Unused /\ sched = Unused

\* list(node.find_folders(max_depth))
FoldersCall ==
    /\ call.pc = "call"
    /\ call' = [call EXCEPT !.out = find_folders(call.layout, call.node, call.max_depth),
                            !.pc = "done"]
    /\ UNCHANGED <<s3, sqs, producer, worker, sched>>

SpecFolders == FoldersInit /\ [][FoldersCall]_vars

Parent(d) == SubSeq(d, 1, Len(d) - 1)

\* The common prefix of a subdirectory is on the one page listed of its parent.
OnPage(layout, d) ==
    \E i \in 1..Len(SubDirs(layout, Parent(d))) :
        /\ SubDirs(layout, Parent(d))[i] = d
        /\ Len(FilesOf(layout, Parent(d))) + i <= MAX_KEYS

\* The directories strictly below a directory.
Descendants(layout, d) == DirsBelow(layout, d) \ {d}

\* The directories from a descendant up to, and without, the directory walked.
PathTo(top, d) == {SubSeq(d, 1, n) : n \in Len(top) + 1..Len(d)}

MaxArchiveLen == 3

ArchiveNames == {LogName(1, 1), LogName(1, 2), LogName(2, 1)}

ArchiveInit ==
    /\ \E n \in 1..MaxArchiveLen :
         \E bns \in [1..n -> ArchiveNames] :
            call = [fn |-> "do_task", pc |-> "download",
                    task |-> RollupTask(Role1, Bucket1, DirA, bns),
                    fetched |-> {}, local |-> <<>>, order |-> <<>>, members |-> <<>>]
    /\ s3 = Unused /\ sqs = Unused /\ producer = Unused /\ worker = Unused /\ sched = Unused

\* The next future of as_completed(futures): any download still running.
ArchiveDownload ==
    /\ call.pc = "download"
    /\ \E i \in DOMAIN call.task.basenames \ call.fetched :
          call' = [DownloadDone(call, i) EXCEPT !.order = Append(@, i)]
    /\ UNCHANGED <<s3, sqs, producer, worker, sched>>

\* with tarfile.open(tarball_path, 'w:gz') as tarball: for local_path in sorted(local_paths)
ArchiveTar ==
    /\ call.pc = "upload"
    /\ call' = [call EXCEPT !.members = TarballMembers(call), !.pc = "archived"]
    /\ UNCHANGED <<s3, sqs, producer, worker, sched>>

ArchiveNext == ArchiveDownload \/ ArchiveTar

SpecArchive == ArchiveInit /\ [][ArchiveNext]_vars

\* How often a name occurs in a sequence of names.
Occurrences(names, n) == Cardinality({j \in 1..Len(names) : names[j] = n})

\* C13: Archive determinism. Whatever the order in which the downloads of a
\* task completed, the member names of its archive are the basenames of the
\* task's object keys in ascending order of name, each as often as the task
\* names it, and each member holds the object of that name.
C13_ArchiveDeterminism ==
    call.pc = "archived" =>
        LET names == [j \in 1..Len(call.members) |-> call.members[j][1]]
        IN /\ Len(names) = TaskLen(call.task)
           /\ \A j, k \in 1..Len(names) : j < k => ~NameLess(names[k], names[j])
           /\ \A n \in ArchiveNames :
                 Occurrences(names, n) = Occurrences(call.task.basenames, n)
           /\ \A j \in 1..Len(names) :
                 call.members[j][2] = Key(call.task.common_prefix, names[j])

\* The downloads completed in another order than the names of the archive.
C13_Witness ==
    /\ call.pc = "archived"
    /\ TaskLen(call.task) = MaxArchiveLen
    /\ \E j, k \in 1..Len(call.order) :
          /\ j < k
          /\ NameLess(call.task.basenames[call.order[k]], call.task.basenames[call.order[j]])
    /\ \E j \in 1..TaskLen(call.task) - 1 :
          NameLess(call.task.basenames[j + 1], call.task.basenames[j])

(***************************************************************************)
(* A second producer run over the prefix of the tasks, started in a state  *)
(* of the running system.                                                  *)
(***************************************************************************)
\* Key order of the names of one directory: a log name sorts before 'rollup-...'.
KeyLess(a, b) == \/ a.pre = "" /\ b.pre # ""
                 \/ a.pre = b.pre /\ NameLess(a, b)

\* bucket.objects.filter(Prefix=prefix.key): the objects of the bucket under a
\* directory, archives included, in key order.
RECURSIVE ListObjects(_)
ListObjects(keys) ==
    IF keys = {} THEN <<>>
    ELSE LET first == CHOOSE k \in keys : \A o \in keys \ {k} : KeyLess(k[2], o[2])
         IN <<ObjectSummary(first, 1)>> \o ListObjects(keys \ {first})

BucketKeys(dir) == {k \in s3.objects \cup {a.key : a \in s3.tarballs} : k[1] = dir}

\* list(roller.make_tasks(s3_role, prefix)) for the prefix DirA on a later day.
SecondRun ==
    make_tasks_of(Role1, S3URI(Bucket1, S3Key(DirA, "")), ListObjects(BucketKeys(DirA)),
                  Clock(MaxDay, 1))

\* A worker run with deletion enabled has processed and acknowledged every
\* task the finished producer run queued.
AllProcessedWithDelete(w) ==
    /\ producer.i > Len(producer.tasks)
    /\ worker[w].pc = "done"
    /\ worker[w].delete
    /\ Messages # {}
    /\ worker[w].acked = Messages

\* C14: Re-run idempotence. Once every task of a producer run has been
\* processed by do_task with deletion enabled, a second producer run over the
\* same prefix yields no task, and no archive object qualifies as a log object.
C14_RerunIdempotent ==
    /\ \A a \in s3.tarballs : ~is_access_log([key |-> a.key])
    /\ \A w \in Workers : AllProcessedWithDelete(w) => SecondRun.tasks = <<>>

(***************************************************************************)
(* The derived properties of a RollupTask, read one at a time.             *)
(***************************************************************************)
get_object_keys(t) == Returned(object_keys(t))

get_date_str(t) == IF t.basenames = <<>> THEN Raised(date_str(t)) ELSE Returned(date_str(t))

\* A tarball_key without its check of the basenames.
get_tarball_key_unchecked(t, random_str) == Returned(tarball_key(t, random_str))

get_tarball_key(t, random_str) ==
    IF t.basenames = <<>> THEN Raised(tarball_key(t, random_str))
    ELSE Returned(tarball_key(t, random_str))

Properties == {"object_keys", "date_str", "tarball_key"}

\* Most basenames of the task read.
MaxAccessLen == 2

AccessInit ==
    /\ \E n \in 0..MaxAccessLen :
         \E bns \in [1..n -> ArchiveNames], role \in {Role1, Role2}, dir \in {DirA, DirB},
            property \in Properties :
            call = [fn |-> property, pc |-> "call", self |-> RollupTask(role, Bucket1, dir, bns),
                    out |-> Returned(<<>>)]
    /\ s3 = Unused /\ sqs = Unused /\ producer = Unused /\ worker = Unused /\ sched = Unused

\* task.object_keys, task.date_str or task.tarball_key
AccessCall ==
    /\ call.pc = "call"
    /\ \E random_str \in TokenHex :
          call' = [call EXCEPT
                     !.out = CASE call.fn = "object_keys" -> get_object_keys(call.self)
                               [] call.fn = "date_str" -> get_date_str(call.self)
                               [] call.fn = "tarball_key" -> get_tarball_key(call.self, random_str),
                     !.pc = "done"]
    /\ UNCHANGED <<s3, sqs, producer, worker, sched>>

SpecAccess == AccessInit /\ [][AccessCall]_vars

\* C15: For a task whose basenames list is empty, date_str and tarball_key
\* raise ValueError and object_keys returns the empty list; for any other
\* task the three return a value.
C15_EmptyTaskAccess ==
    call.pc = "done" =>
        IF call.self.basenames = <<>>
        THEN IF call.fn = "object_keys" THEN call.out = Returned(<<>>)
             ELSE call.out = Raised(ValueError)
        ELSE call.out.raised = ""

\* The statement with object_keys raising as well.
C15_AsStated ==
    (call.pc = "done" /\ call.self.basenames = <<>>) => call.out.raised # ""

\* tarball_key of an empty task has raised.
C15_Witness ==
    /\ call.pc = "done"
    /\ call.self.basenames = <<>>
    /\ call.fn = "tarball_key"
    /\ call.out.raised = ValueError

(***************************************************************************)
(* do_task from the upload to its return value.                            *)
(***************************************************************************)
\* Common prefixes of tasks: 'example.com/', 'a/b/', 'a//b/', 'a/./b/', and '/'.
KeyDirs == {DirA, <<"a", "b">>, <<"a", "", "b">>, <<"a", ".", "b">>, <<"">>}

\* Most basenames of the task uploaded.
MaxReturnLen == 2

\* The files of the task are downloaded; the tarball is about to be built.
ReturnInit ==
    /\ \E n \in 1..MaxReturnLen :
         \E bns \in [1..n -> ArchiveNames], dir \in KeyDirs, delete \in BOOLEAN :
            LET t == RollupTask(Role1, Bucket1, dir, bns)
            IN call = [fn |-> "do_task",
                       wr |-> [IdleWorker EXCEPT !.pc = "upload", !.delete = delete, !.task = t,
                                                 !.fetched = DOMAIN bns],
                       out |-> Returned(<<>>)]
    /\ s3 = Unused /\ sqs = Unused /\ producer = Unused /\ worker = Unused /\ sched = Unused

\* tarball_obj = bucket.Object(task.tarball_key); tarball_obj.upload_file(...)
ReturnUpload ==
    /\ call.wr.pc = "upload"
    /\ \E random_str \in TokenHex :
          call' = [call EXCEPT !.wr = AfterUpload(@, tarball_key(@.task, random_str))]
    /\ UNCHANGED <<s3, sqs, producer, worker, sched>>

\* if delete: self._delete_objects_in_task(s3_session, task), one delete_objects call
ReturnDelete ==
    /\ call.wr.pc = "delete"
    /\ call' = [call EXCEPT !.wr.calls = Tail(@),
                            !.wr.pc = IF Tail(call.wr.calls) = <<>> THEN "return" ELSE "delete"]
    /\ UNCHANGED <<s3, sqs, producer, worker, sched>>

\* return tarball_obj.key
ReturnKey ==
    /\ call.wr.pc = "return"
    /\ call' = [call EXCEPT !.out = Returned(call.wr.uploaded[1]), !.wr.pc = "done"]
    /\ UNCHANGED <<s3, sqs, producer, worker, sched>>

ReturnNext == ReturnUpload \/ ReturnDelete \/ ReturnKey

SpecReturn == ReturnInit /\ [][ReturnNext]_vars

\* C16: The key do_task returns is the key under which the call uploaded the
\* archive, and it is common_prefix followed by the archive name
\* 'rollup-' + date_str + '-' + token + '.tgz' for one token of token_hex(4).
C16_ReturnedKey ==
    call.wr.pc = "done" =>
        /\ call.out = Returned(call.wr.uploaded[1])
        /\ \E random_str \in TokenHex :
              call.out.value = Key(call.wr.task.common_prefix,
                                   TarballName(date_str(call.wr.task), random_str))

(***************************************************************************)
(* S3Path._list_objects under functools.lru_cache(1): one cache of one     *)
(* entry for the method, shared by all nodes and keyed by the node (which  *)
(* hashes and compares by its uri).                                        *)
(***************************************************************************)
\* The nodes read: the bucket root, two folders, and a key prefix that is no folder.
CacheNodes == {DirNode(<<>>), DirNode(<<"a">>), DirNode(<<"b">>),
               S3Path(Bucket1, <<"a">>, <<"2022-">>)}

CacheLayouts == {[d \in TreeDirs |-> h] : h \in {"log", "txt"}}

\* Most reads of files and folders in one run.
MaxReads == 4

\* self._list_objects(): the entry of the node if it is the one cached, else a
\* listing call whose response replaces the entry.
list_objects(c, node) ==
    IF c.cache # <<>> /\ c.cache[1].key = node THEN c
    ELSE [c EXCEPT !.cache = <<[key |-> node, value |-> list_objects_v2(c.layout, node)]>>,
                   !.round_trips[node] = @ + 1]

CacheInit ==
    /\ \E layout \in CacheLayouts :
          call = [fn |-> "reads", layout |-> layout, cache |-> <<>>,
                  round_trips |-> [n \in CacheNodes |-> 0], reads |-> 0,
                  out |-> Returned(<<>>)]
    /\ s3 = Unused /\ sqs = Unused /\ producer = Unused /\ worker = Unused /\ sched = Unused

\* list(node.folders)
ReadFolders(node) ==
    /\ call.reads < MaxReads
    /\ call' = IF is_file(node)
               THEN [call EXCEPT !.reads = @ + 1, !.out = Raised(NotADirectoryError)]
               ELSE LET c == list_objects(call, node)
                        items == c.cache[1].value.CommonPrefixes
                    IN [c EXCEPT !.reads = @ + 1,
                                 !.out = Returned([i \in 1..Len(items) |-> items[i].Prefix])]
    /\ UNCHANGED <<s3, sqs, producer, worker, sched>>

\* list(node.files)
ReadFiles(node) ==
    /\ call.reads < MaxReads
    /\ call' = IF is_file(node)
               THEN [call EXCEPT !.reads = @ + 1, !.out = Raised(NotADirectoryError)]
               ELSE LET c == list_objects(call, node)
                        items == c.cache[1].value.Contents
                    IN [c EXCEPT !.reads = @ + 1,
                                 !.out = Returned([i \in 1..Len(items) |-> items[i].Key])]
    /\ UNCHANGED <<s3, sqs, producer, worker, sched>>

CacheNext ==
    \/ \E node \in CacheNodes : ReadFolders(node)
    \/ \E node \in CacheNodes : ReadFiles(node)

SpecCache == CacheInit /\ [][CacheNext]_vars

\* C18: Listing memoization. Over any sequence of files and folders reads of
\* any nodes, in any interleaving, the listing call of the object store is
\* issued at most once for each node.
C18_ListedOnce == \A n \in CacheNodes : call.round_trips[n] <= 1

(***************************************************************************)
(* The window of make_tasks.                                               *)
(***************************************************************************)
\* The prefixes whose task stream is not created yet.
PendingPrefixes == sched.task_makers..Len(sched.streams)

\* C19: Scheduler window bound. At every point of a make_tasks run at most
\* WINDOW (20) task cursors are open; the run opens the first
\* min(WINDOW, number of prefixes) of them at its start, and afterwards creates
\* the stream of a pending prefix only in the step that drops the exhausted
\* cursor at the head of the window, one prefix for one cursor dropped.
C19_WindowBound ==
    /\ [](Len(sched.active) <= WINDOW)
    /\ [][sched'.task_makers # sched.task_makers =>
            IF sched.pc = "start"
            THEN /\ sched'.task_makers = Min(WINDOW, Len(sched.streams)) + 1
                 /\ Len(sched'.active) = sched'.task_makers - 1
            ELSE /\ sched.active # <<>>
                 /\ Head(sched.active).taken = sched.streams[Head(sched.active).prefix]
                 /\ sched'.task_makers = sched.task_makers + 1
                 /\ sched'.active = Append(Tail(sched.active), Cursor(sched.task_makers))]_vars

\* The window is full after the last of two pending prefixes was admitted.
C19_Witness ==
    /\ sched.pc = "loop"
    /\ Len(sched.active) = WINDOW
    /\ sched.task_makers = WINDOW + 3
    /\ PendingPrefixes = {}

\* The consumer of make_tasks (for task in tasks) takes the tasks until the
\* generator ends.
SpecSchedFair == SpecSched /\ WF_vars(SchedNext)

\* C20: Scheduler termination. A make_tasks run over finitely many prefixes
\* with finite task streams (streams of no task included) that passes the
\* region check eventually ends; it ends only from a point where the window
\* and the pending prefixes are both empty, and the window is never empty
\* in the loop while a prefix is pending.
C20_Termination ==
    /\ (sched.pc = "start" /\ sched.region_ok) ~> (sched.pc = "done")
    /\ [](sched.pc = "done" => sched.active = <<>> /\ PendingPrefixes = {})
    /\ []((sched.pc \in {"loop", "yielded"} /\ sched.active = <<>>) => PendingPrefixes = {})
    /\ [][sched'.pc = "done" =>
            sched.pc = "loop" /\ sched.active = <<>> /\ PendingPrefixes = {}]_vars

\* A run over more prefixes than the window holds, one of them without a task, has ended.
C20_Witness ==
    /\ sched.pc = "done"
    /\ Len(sched.streams) > WINDOW
    /\ \E i \in 1..Len(sched.streams) : sched.streams[i] = 0
    /\ sched.out # <<>>
    /\ sched.prefixes_count = Len(sched.streams)

(***************************************************************************)
(* What make_tasks has yielded.                                            *)
(***************************************************************************)
\* The tasks of the i-th prefix among those yielded, in the order yielded.
YieldedOf(i) == SelectSeq(sched.out, LAMBDA task : task[1] = i)

\* The first k tasks of the stream of the i-th prefix.
StreamPrefix(i, k) == [j \in 1..k |-> <<i, j>>]

\* The cursors of the window, by prefix.
OpenCursors == {sched.active[c] : c \in 1..Len(sched.active)}

\* C21: Scheduler conservation. At every point of a make_tasks run the tasks
\* yielded of each prefix are the first tasks of its stream, each once and in
\* the order of the stream; no prefix has two cursors, the cursor of a prefix
\* stands where the yields of the prefix stand, and a prefix without a cursor
\* is either pending with nothing yielded or dropped with all yielded; when
\* the run ends, every task of every prefix has been yielded exactly once.
C21_Conservation ==
    /\ \A i \in 1..Len(sched.streams) :
          \E k \in 0..sched.streams[i] :
             /\ YieldedOf(i) = StreamPrefix(i, k)
             /\ \A cur \in OpenCursors : cur.prefix = i => cur.taken = k
             /\ (~\E cur \in OpenCursors : cur.prefix = i) =>
                   IF i >= sched.task_makers THEN k = 0 ELSE k = sched.streams[i]
    /\ \A a, b \in 1..Len(sched.active) :
          a # b => sched.active[a].prefix # sched.active[b].prefix
    /\ sched.pc = "done" =>
          \A i \in 1..Len(sched.streams) : YieldedOf(i) = StreamPrefix(i, sched.streams[i])

\* A run over more prefixes than the window holds, with two tasks each, has ended.
C21_Witness ==
    /\ sched.pc = "done"
    /\ Len(sched.streams) > WINDOW
    /\ \A i \in 1..Len(sched.streams) : sched.streams[i] = 2
    /\ Len(sched.out) = 2 * Len(sched.streams)

(***************************************************************************)
(* _delete_objects_in_task, one delete_objects call at a time.             *)
(***************************************************************************)
\* Most full batches of DELETE_MAX_KEYS keys in the task deleted.
MaxDeleteChunks == 2

DeleteLens ==
    {1, 2, DELETE_MAX_KEYS - 1, DELETE_MAX_KEYS, DELETE_MAX_KEYS + 1}
    \cup {k * DELETE_MAX_KEYS : k \in 2..MaxDeleteChunks}
    \cup {k * DELETE_MAX_KEYS + 1 : k \in 2..MaxDeleteChunks}

\* delete_objects of the store rejects a request without keys or with more
\* than DELETE_MAX_KEYS keys.
MalformedXML == "MalformedXML"

delete_objects(keys) ==
    IF Len(keys) = 0 \/ Len(keys) > DELETE_MAX_KEYS THEN Raised(MalformedXML)
    ELSE Returned(keys)

\* do_task has uploaded the archive of a task and deletes its sources.
DeleteInit ==
    /\ \E n \in DeleteLens, d \in 1..2, role \in {Role1, Role2}, dir \in {DirA, DirB} :
          call = [fn |-> "_delete_objects_in_task", pc |-> "enter",
                  task |-> RollupTask(role, Bucket1, dir, [i \in 1..n |-> LogName(d, i)]),
                  calls |-> <<>>, issued |-> <<>>, error |-> ""]
    /\ s3 = Unused /\ sqs = Unused /\ producer = Unused /\ worker = Unused /\ sched = Unused

\* The task is split, recursively, into the tasks of the delete_objects calls.
DeleteEnter ==
    /\ call.pc = "enter"
    /\ call' = [call EXCEPT !.calls = delete_calls(call.task), !.pc = "delete"]
    /\ UNCHANGED <<s3, sqs, producer, worker, sched>>

\* s3_client.delete_objects(Bucket, Delete={'Objects': ...}) of the next task.
DeleteIssue ==
    /\ call.pc = "delete"
    /\ call.calls # <<>>
    /\ LET keys == Head(call.calls)
           response == delete_objects(keys)
       IN call' = IF response.raised # ""
                  THEN [call EXCEPT !.issued = Append(@, keys), !.error = response.raised,
                                    !.pc = "failed"]
                  ELSE [call EXCEPT !.issued = Append(@, keys), !.calls = Tail(@),
                                    !.pc = IF Tail(call.calls) = <<>> THEN "return" ELSE "delete"]
    /\ UNCHANGED <<s3, sqs, producer, worker, sched>>

DeleteNext == DeleteEnter \/ DeleteIssue

SpecDelete == DeleteInit /\ [][DeleteNext]_vars

\* C22: Source deletion batching. Every delete_objects call of
\* _delete_objects_in_task carries at least 1 and at most 1000 keys, no call
\* is rejected for its number of keys, the keys issued so far are the first
\* keys of task.object_keys in their order, and when the deletion returns
\* the keys of all calls, in call order, are task.object_keys.
C22_DeleteBatching ==
    LET keys == Flatten(call.issued)
    IN /\ \A c \in 1..Len(call.issued) :
             Len(call.issued[c]) >= 1 /\ Len(call.issued[c]) <= DELETE_MAX_KEYS
       /\ call.error = ""
       /\ call.pc # "failed"
       /\ Len(keys) <= TaskLen(call.task)
       /\ keys = SubSeq(object_keys(call.task), 1, Len(keys))
       /\ call.pc = "return" => keys = object_keys(call.task)

\* A task of more than two full batches has been deleted in three calls, the last of one key.
C22_Witness ==
    /\ call.pc = "return"
    /\ TaskLen(call.task) = 2 * DELETE_MAX_KEYS + 1
    /\ Len(call.issued) = 3
    /\ Len(call.issued[3]) = 1

(***************************************************************************)
(* The tasks of one prefix and the listing they are made from.             *)
(***************************************************************************)
\* The qualifying objects of the listing of the call, in listing order.
Qualifying == SelectSeq(call.listing, is_access_log)

\* What _date_getter returned for the j-th qualifying object.
DerivedDate(j) == date_getter(Qualifying[j], call.clock[j])

\* C23: Stop at today. Once the listing of a prefix has reached a qualifying
\* object whose date is the UTC date current when it is examined, or later,
\* neither that object nor any object after it in listing order is in a task,
\* whatever its date.
C23_StopAtToday ==
    call.pc = "done" =>
        \A j \in 1..Len(Qualifying) :
           DerivedDate(j) = NotPast =>
              \A k \in j..Len(Qualifying) :
                 PosixName(Qualifying[k].key) \notin TaskNames(call.out)

\* An object of the past listed after an object of today is left out, one before it is in a task.
C23_Witness ==
    /\ call.pc = "done"
    /\ call.out.tasks # <<>>
    /\ call.out.error = ""
    /\ \E j, k \in 1..Len(Qualifying) :
          /\ j < k
          /\ DerivedDate(j) = NotPast
          /\ DerivedDate(k) \notin {NotPast, InvalidDate}

(***************************************************************************)
(* _make_tasks on a prefix that find_log_prefixes found in a bucket layout.*)
(***************************************************************************)
\* All objects of a layout in or below a directory, in key order: the names of
\* the objects of the directory sort before its subdirectories 'a/' and 'b/'.
RECURSIVE ObjectsUnder(_, _)
ObjectsUnder(layout, d) ==
    LET names == FilesOf(layout, d)
        below(c) == IF c \in TreeDirs THEN ObjectsUnder(layout, c) ELSE <<>>
    IN [i \in 1..Len(names) |-> ObjectSummary(Key(d, names[i]), 1)]
       \o below(d \o <<"a">>) \o below(d \o <<"b">>)

\* bucket.objects.filter(Prefix=prefix.key): every object whose key starts with
\* the prefix key, with no delimiter. Under the key prefix 'dir/2022-' these are
\* the log objects of the directory.
objects_filter(layout, prefix) ==
    IF prefix.key.stem = "" THEN ObjectsUnder(layout, prefix.key.dir)
    ELSE SelectSeq(ObjectsUnder(layout, prefix.key.dir),
                   LAMBDA o : o.key[1] = prefix.key.dir /\ PosixName(o.key).pre = "")

BuildHoldings == {"none", "log", "txt", "days"}

\* Layouts with objects in the bucket root, in 'a/', 'b/', 'a/a/' and 'a/b/'.
BuildLayouts ==
    {l \in [TreeDirs -> BuildHoldings] : \A d \in TreeDirs : Len(d) > 2 => l[d] = "none"}

\* The latest UTC date of a run.
MaxBuildDay == 4

BuildInit ==
    /\ \E layout \in BuildLayouts, root \in Roots, today \in 2..MaxBuildDay :
         \E prefix \in Range(find_log_prefixes(layout, root, DEFAULT_MAX_DEPTH)) :
            LET listing == objects_filter(layout, prefix)
            IN call = [fn |-> "_make_tasks", pc |-> "call", layout |-> layout,
                       s3_role |-> Role1, prefix |-> prefix, listing |-> listing,
                       clock |-> [j \in 1..Len(listing) |-> today], out |-> <<>>]
    /\ s3 = Unused /\ sqs = Unused /\ producer = Unused /\ worker = Unused /\ sched = Unused

\* list(self._make_tasks(s3_role, prefix))
BuildCall ==
    /\ call.pc = "call"
    /\ call' = [call EXCEPT !.out = make_tasks_of(call.s3_role, call.prefix, call.listing,
                                                  call.clock),
                            !.pc = "done"]
    /\ UNCHANGED <<s3, sqs, producer, worker, sched>>

SpecBuild == BuildInit /\ [][BuildCall]_vars

\* The dates before today of the qualifying objects of the listing.
PastDates ==
    {PosixName(Qualifying[j].key).date : j \in {i \in 1..Len(Qualifying) : DerivedDate(i) # NotPast}}

\* C24: Single-date tasks. All basenames of a task of the task builder carry
\* one date, the date_str of the task; and for a listing in key order whose
\* tasks stay below the limits of size and count, the builder yields exactly
\* one task for each past date present under the prefix.
C24_SingleDate ==
    call.pc = "done" =>
        /\ \A t \in 1..Len(call.out.tasks) :
              \A b \in 1..TaskLen(call.out.tasks[t]) :
                 call.out.tasks[t].basenames[b].date = date_str(call.out.tasks[t])
        /\ \A d \in PastDates :
              Cardinality({t \in 1..Len(call.out.tasks) : date_str(call.out.tasks[t]) = d}) = 1

\* C25: No empty task. For any listing, every task _make_tasks yields has at
\* least one basename and as many object keys as basenames, and every bin of
\* _group_objects it was made from has at least one object, one for each
\* basename of the task.
C25_NoEmptyTask ==
    call.pc = "done" =>
        /\ Len(call.out.groups) = Len(call.out.tasks)
        /\ \A t \in 1..Len(call.out.tasks) :
              /\ TaskLen(call.out.tasks[t]) > 0
              /\ Len(object_keys(call.out.tasks[t])) = TaskLen(call.out.tasks[t])
              /\ Len(call.out.groups[t]) = TaskLen(call.out.tasks[t])

\* Two bins of one date were yielded from a listing that ends with an object of today.
C25_Witness ==
    /\ call.pc = "done"
    /\ Len(call.out.tasks) = 2
    /\ date_str(call.out.tasks[1]) = date_str(call.out.tasks[2])
    /\ Len(Qualifying) = 3
    /\ DerivedDate(3) = NotPast

\* The keys of the qualifying objects of the listing of the call.
QualifyingKeys == {Qualifying[j].key : j \in 1..Len(Qualifying)}

\* C26: Task keys exist. Every object key of every task _make_tasks yields for
\* a prefix (common_prefix + basename) is the key of a qualifying object of the
\* listing of that prefix, objects in sub-directories below the prefix included.
C26_TaskKeysExist ==
    call.pc = "done" =>
        \A t \in 1..Len(call.out.tasks) :
           Range(object_keys(call.out.tasks[t])) \subseteq QualifyingKeys

(***************************************************************************)
(* One producer run over a root: the tasks of every prefix found.          *)
(***************************************************************************)
ProduceInit ==
    /\ \E layout \in BuildLayouts, root \in Roots, today \in 2..MaxBuildDay :
          call = [fn |-> "make_tasks", pc |-> "call", layout |-> layout, s3_role |-> Role1,
                  root |-> root, today |-> today, log_prefixes |-> <<>>, out |-> <<>>]
    /\ s3 = Unused /\ sqs = Unused /\ producer = Unused /\ worker = Unused /\ sched = Unused

\* list(roller.make_tasks(s3_role, prefix)): the tasks of _make_tasks of each
\* prefix of find_log_prefixes, by prefix.
ProduceCall ==
    /\ call.pc = "call"
    /\ LET log_prefixes == find_log_prefixes(call.layout, call.root, DEFAULT_MAX_DEPTH)
       IN call' = [call EXCEPT
                     !.log_prefixes = log_prefixes,
                     !.out = [p \in 1..Len(log_prefixes) |->
                                LET listing == objects_filter(call.layout, log_prefixes[p])
                                IN make_tasks_of(call.s3_role, log_prefixes[p], listing,
                                                 [j \in 1..Len(listing) |-> call.today])],
                     !.pc = "done"]
    /\ UNCHANGED <<s3, sqs, producer, worker, sched>>

SpecProduce == ProduceInit /\ [][ProduceCall]_vars

\* The places of an object in the tasks of the run: prefix, task and position.
PlacesOf(key) ==
    {<<p, t, o>> \in (1..Len(call.out)) \X (1..3 * Cardinality(TreeDirs)) \X (1..3 * Cardinality(TreeDirs)) :
        /\ t <= Len(call.out[p].groups)
        /\ o <= Len(call.out[p].groups[t])
        /\ call.out[p].groups[t][o].key = key}

\* C27: No overlap between prefixes. In one producer run over a root, every
\* qualifying object of the bucket is placed in at most one task, also when a
\* directory and one of its sub-directories both directly hold qualifying objects.
C27_NoOverlap ==
    call.pc = "done" =>
        \A d \in TreeDirs :
           \A i \in 1..Len(FilesOf(call.layout, d)) :
              Cardinality(PlacesOf(Key(d, FilesOf(call.layout, d)[i]))) <= 1

====
